---- MODULE Spec2Model ----
(***************************************************************************)
(* Model of batch_summarize_pdfs.py: the Locator (find_pdf_files), the     *)
(* Extractor (extract_text_from_pdf), the placeholder Summarizer           *)
(* (summarize_paper), the Orchestrator (summarize_pdfs, main) and the two  *)
(* writers (write_json, write_csv).                                        *)
(*                                                                         *)
(* Representation.  A file or directory name is a sequence of one-letter   *)
(* strings, so that suffix matching and string comparison are computed     *)
(* letter by letter.  A path is a sequence of names (pathlib's parts).  A  *)
(* text is a sequence of fragments whose concatenation is the string; the  *)
(* empty string is <<>>.  A dict is a sequence of <<key, value>> pairs in  *)
(* insertion order.  A written file is a sequence of lines, each a         *)
(* sequence of fragments (JSON) or of cells (CSV).                         *)
(***************************************************************************)
EXTENDS Naturals, Sequences, FiniteSets

VARIABLES
    root_exists,   \* the directory args.root_dir exists
    tree,          \* the files under root_dir: a set of paths relative to it
    PdfReader,     \* FALSE when the pypdf import failed (PdfReader is None)
    fs_json,       \* the file at args.json_output
    fs_csv,        \* the file at args.csv_output
    pc,            \* position of main()
    pdf_paths,     \* main: pdf_paths
    idx,           \* summarize_pdfs: position of the for loop in pdf_paths
    doc,           \* the document the Extractor has open
    text,          \* summarize_pdfs: text
    summaries,     \* summarize_pdfs: summaries
    error,         \* the exception that ended the run
    trace,         \* history: the Extractor and Summarizer calls of this run
    json_before,   \* history: fs_json when this run started
    csv_before,    \* history: fs_csv when this run started
    run            \* number of invocations of the script so far

vars == <<root_exists, tree, PdfReader, fs_json, fs_csv, pc, pdf_paths, idx,
          doc, text, summaries, error, trace, json_before, csv_before, run>>

\* Bounds of the model.
MaxPages == 2
MaxRuns == 2

-----------------------------------------------------------------------------
(* Strings and paths *)

\* Code point of a letter (Python compares str by code point).
Code(c) ==
    CASE c = "-" -> 45 [] c = "." -> 46 [] c = "/" -> 47
      [] c = "D" -> 68 [] c = "F" -> 70 [] c = "P" -> 80
      [] c = "a" -> 97 [] c = "b" -> 98 [] c = "d" -> 100
      [] c = "f" -> 102 [] c = "i" -> 105 [] c = "l" -> 108
      [] c = "p" -> 112 [] c = "t" -> 116

\* str.__lt__: the first differing letter decides, a proper prefix is smaller.
RECURSIVE StrLess(_, _)
StrLess(s, t) ==
    IF t = <<>> THEN FALSE
    ELSE IF s = <<>> THEN TRUE
    ELSE IF Head(s) = Head(t) THEN StrLess(Tail(s), Tail(t))
    ELSE Code(Head(s)) < Code(Head(t))

\* PurePath.__lt__: the lists of parts are compared, part by part.
RECURSIVE PathLess(_, _)
PathLess(p, q) ==
    IF q = <<>> THEN FALSE
    ELSE IF p = <<>> THEN TRUE
    ELSE IF Head(p) = Head(q) THEN PathLess(Tail(p), Tail(q))
    ELSE StrLess(Head(p), Head(q))

\* str(path): the parts joined by the separator.
RECURSIVE PathStr(_)
PathStr(p) ==
    IF p = <<>> THEN <<>>
    ELSE IF Len(p) = 1 THEN Head(p)
    ELSE Head(p) \o <<"/">> \o PathStr(Tail(p))

\* Path.name: the last part.
Name(p) == p[Len(p)]

Suffix == <<".", "p", "d", "f">>

\* The pattern "*.pdf" against a name (case-sensitive, as on POSIX).
Matches(name) ==
    /\ Len(name) >= Len(Suffix)
    /\ SubSeq(name, Len(name) - Len(Suffix) + 1, Len(name)) = Suffix

\* args.root_dir
root_dir == << <<"l", "i", "t">> >>

\* The entries the model's directory trees are made of, relative to root_dir.
Entries ==
    { << <<"a">> \o Suffix >>,
      << <<"a">>, <<"b">> \o Suffix >>,
      << <<"b">> \o Suffix >>,
      << <<"a", ".", "P", "D", "F">> >> }

\* Every file and directory under root_dir, at any depth.
Walk(t) == UNION { { root_dir \o SubSeq(p, 1, n) : n \in 1..Len(p) } : p \in t }

\* Path.rglob("*.pdf"): the entries whose name matches, in no particular order.
rglob(t) == { p \in Walk(t) : Matches(Name(p)) }

\* The orders in which a directory walk can yield the set S.
Enumerations(S) ==
    { e \in [1..Cardinality(S) -> S] : \A i, j \in DOMAIN e : i # j => e[i] # e[j] }

\* sorted(): a stable sort under PurePath.__lt__ (insertion of each element
\* after the elements that are not greater).
RECURSIVE Insert(_, _)
Insert(p, s) ==
    IF s = <<>> THEN <<p>>
    ELSE IF PathLess(p, Head(s)) THEN <<p>> \o s
    ELSE <<Head(s)>> \o Insert(p, Tail(s))

\* Mutant: the sort is left out, the walk's order is returned.
sorted_none(e) == e

RECURSIVE sorted(_)
sorted(e) ==
    IF e = <<>> THEN <<>> ELSE Insert(e[Len(e)], sorted(SubSeq(e, 1, Len(e) - 1)))

-----------------------------------------------------------------------------
(* Exceptions *)

NoError == [type |-> "none", msg |-> "", path |-> <<>>, cause |-> 0]

\* find_pdf_files: raise FileNotFoundError(f"Directory not found: {root_dir}")
FileNotFoundError(p) ==
    [type |-> "FileNotFoundError", msg |-> "Directory not found", path |-> p, cause |-> 0]

\* extract_text_from_pdf: raise RuntimeError("pypdf is required ...")
DependencyError ==
    [type |-> "RuntimeError", msg |-> "pypdf is required for text extraction",
     path |-> <<>>, cause |-> 0]

\* PdfReader(str(pdf_path)) raising on a file it cannot open or parse; the
\* exception is pypdf's own and passes through extract_text_from_pdf unwrapped.
OpenError(p) ==
    [type |-> "PdfReadError", msg |-> "cannot open", path |-> <<>>, cause |-> 0]

\* extract_text_from_pdf: raise RuntimeError(f"Failed to extract text from
\* {pdf_path}: {exc}") from exc, exc being the exception of page n.
PageError(p, n) ==
    [type |-> "RuntimeError", msg |-> "Failed to extract text from", path |-> p,
     cause |-> n]

-----------------------------------------------------------------------------
(* Text Extractor *)

\* What page.extract_text() does on a page: returns a text, returns None, or
\* raises.
PageOutcome ==
    { [kind |-> "text", text |-> <<"x">>],
      [kind |-> "text", text |-> <<>>],
      [kind |-> "none", text |-> <<>>],
      [kind |-> "raise", text |-> <<>>] }

RECURSIVE SeqsUpTo(_, _)
SeqsUpTo(S, n) ==
    IF n = 0 THEN {<<>>}
    ELSE LET shorter == SeqsUpTo(S, n - 1)
         IN  shorter \cup { Append(s, x) : s \in shorter, x \in S }

\* The documents a path can hold: one PdfReader cannot open, or one with up to
\* MaxPages pages.
Documents ==
    { [opens |-> FALSE, pages |-> <<>>] }
        \cup { [opens |-> TRUE, pages |-> ps] : ps \in SeqsUpTo(PageOutcome, MaxPages) }

NoDocument == [opens |-> FALSE, pages |-> << [kind |-> "closed", text |-> <<>>] >>]

\* page.extract_text() or ""
PageText(page) == IF page.kind = "text" THEN page.text ELSE <<>>

\* "\n".join(page_texts)
RECURSIVE Join(_)
Join(page_texts) ==
    IF page_texts = <<>> THEN <<>>
    ELSE IF Len(page_texts) = 1 THEN Head(page_texts)
    ELSE Head(page_texts) \o <<"\n">> \o Join(Tail(page_texts))

\* The for loop over reader.pages, from page n on, page_texts collected so far.
RECURSIVE ExtractPages(_, _, _, _)
ExtractPages(pdf_path, pages, n, page_texts) ==
    IF n > Len(pages)
    THEN [raised |-> FALSE, value |-> Join(page_texts), exc |-> NoError,
          opened |-> TRUE]
    ELSE IF pages[n].kind = "raise"
    THEN [raised |-> TRUE, value |-> <<>>, exc |-> PageError(pdf_path, n),
          opened |-> TRUE]
    ELSE ExtractPages(pdf_path, pages, n + 1, Append(page_texts, PageText(pages[n])))

\* Mutant: a page that raises is skipped, the text of the others is returned.
extract_text_from_pdf_skip(pdf_path, d, reader) ==
    IF ~reader
    THEN [raised |-> TRUE, value |-> <<>>, exc |-> DependencyError,
          opened |-> FALSE]
    ELSE IF ~d.opens
    THEN [raised |-> TRUE, value |-> <<>>, exc |-> OpenError(pdf_path),
          opened |-> TRUE]
    ELSE [raised |-> FALSE,
          value |-> Join(SelectSeq([n \in 1..Len(d.pages) |->
                                       IF d.pages[n].kind = "raise"
                                       THEN <<"skipped">>
                                       ELSE PageText(d.pages[n])],
                                   LAMBDA t : t # <<"skipped">>)),
          exc |-> NoError, opened |-> TRUE]

\* extract_text_from_pdf(pdf_path), d being the document at pdf_path and
\* reader the module-level name PdfReader.
extract_text_from_pdf(pdf_path, d, reader) ==
    IF ~reader
    THEN [raised |-> TRUE, value |-> <<>>, exc |-> DependencyError,
          opened |-> FALSE]
    ELSE IF ~d.opens
    THEN [raised |-> TRUE, value |-> <<>>, exc |-> OpenError(pdf_path),
          opened |-> TRUE]
    ELSE ExtractPages(pdf_path, d.pages, 1, <<>>)

-----------------------------------------------------------------------------
(* Summarizer *)

\* Mutant: the filename lands in "title" and the sentinel in "id".
summarize_paper_swapped(txt, filename) ==
    << <<"id", <<"TBD">> >>,
       <<"title", filename>>,
       <<"year", <<>> >>,
       <<"venue", <<>> >>,
       <<"study_type", <<>> >>,
       <<"environment", <<>> >>,
       <<"interface_type", <<>> >>,
       <<"task", <<>> >>,
       <<"participants", <<>> >>,
       <<"measures", <<>> >>,
       <<"main_findings", <<"- Placeholder finding", "\n", "- Add LLM output here">> >>,
       <<"relevance_to_my_thesis",
         <<"Placeholder relevance for future LLM integration.">> >> >>

\* summarize_paper(text, filename): the placeholder record, keys in insertion
\* order.
summarize_paper(txt, filename) ==
    << <<"id", filename>>,
       <<"title", <<"TBD">> >>,
       <<"year", <<>> >>,
       <<"venue", <<>> >>,
       <<"study_type", <<>> >>,
       <<"environment", <<>> >>,
       <<"interface_type", <<>> >>,
       <<"task", <<>> >>,
       <<"participants", <<>> >>,
       <<"measures", <<>> >>,
       <<"main_findings", <<"- Placeholder finding", "\n", "- Add LLM output here">> >>,
       <<"relevance_to_my_thesis",
         <<"Placeholder relevance for future LLM integration.">> >> >>

-----------------------------------------------------------------------------
(* Dicts *)

\* list(d.keys())
Keys(d) == [i \in 1..Len(d) |-> d[i][1]]

KeySet(d) == { d[i][1] : i \in 1..Len(d) }

\* d.get(key, default)
Get(d, key, default) ==
    IF key \in KeySet(d)
    THEN d[CHOOSE i \in 1..Len(d) : d[i][1] = key][2]
    ELSE default

-----------------------------------------------------------------------------
(* Files *)

Absent == [exists |-> FALSE, lines |-> <<>>]

File(lines) == [exists |-> TRUE, lines |-> lines]

\* Concatenation of a sequence of sequences.
RECURSIVE Flatten(_)
Flatten(ss) == IF ss = <<>> THEN <<>> ELSE Head(ss) \o Flatten(Tail(ss))

-----------------------------------------------------------------------------
(* write_json *)

\* json's escaping of a fragment (ensure_ascii=False).
JsonEscape(f) ==
    IF f = "\n" THEN <<"\\n">>
    ELSE IF f = "\"" THEN <<"\\\"">>
    ELSE IF f = "\\" THEN <<"\\\\">>
    ELSE <<f>>

\* A str as a JSON string.
JsonString(txt) ==
    <<"\"">> \o Flatten([i \in 1..Len(txt) |-> JsonEscape(txt[i])]) \o <<"\"">>

\* The lines of one dict at indent level 1 (indent=2); last: no comma follows.
JsonObject(d, last) ==
    << <<"  {">> >>
        \o [i \in 1..Len(d) |->
               <<"    ">> \o JsonString(<<d[i][1]>>) \o <<": ">> \o JsonString(d[i][2])
                   \o (IF i = Len(d) THEN <<>> ELSE <<",">>)]
        \o << (IF last THEN <<"  }">> ELSE <<"  }", ",">>) >>

\* json.dump(data, f, ensure_ascii=False, indent=2)
JsonDump(data) ==
    IF data = <<>> THEN << <<"[]">> >>
    ELSE << <<"[">> >>
             \o Flatten([k \in 1..Len(data) |-> JsonObject(data[k], k = Len(data))])
             \o << <<"]">> >>

\* Mutant: the file is opened in append mode.
write_json_append(data, file) == File(file.lines \o JsonDump(data))

\* write_json(data, output_path): the file at output_path afterwards, given
\* the file there before (mode "w" truncates).
write_json(data, file) == File(JsonDump(data))

-----------------------------------------------------------------------------
(* write_csv *)

\* csv's QUOTE_MINIMAL: a cell holding the delimiter, the quote character or
\* a line terminator is quoted, its quote characters doubled.
CsvSpecial == {",", "\"", "\n", "\r"}

CsvEscape(f) == IF f = "\"" THEN <<"\"", "\"">> ELSE <<f>>

CsvCell(txt) ==
    IF \E i \in 1..Len(txt) : txt[i] \in CsvSpecial
    THEN <<"\"">> \o Flatten([i \in 1..Len(txt) |-> CsvEscape(txt[i])]) \o <<"\"">>
    ELSE txt

\* DictWriter.writeheader(): the field names as a row.
CsvHeader(fieldnames) == [j \in 1..Len(fieldnames) |-> CsvCell(<<fieldnames[j]>>)]

\* DictWriter._dict_to_list(rowdict): the values in fieldnames order, "" for
\* a missing key.
CsvRow(fieldnames, rowdict) ==
    [j \in 1..Len(fieldnames) |-> CsvCell(Get(rowdict, fieldnames[j], <<>>))]

\* DictWriter (extrasaction="raise"): a key outside fieldnames raises
\* ValueError.
WrongFields(fieldnames, rowdict) ==
    KeySet(rowdict) \ { fieldnames[j] : j \in 1..Len(fieldnames) }

\* The rows writer.writerows(data) writes before it returns or raises.
RECURSIVE CsvRows(_, _)
CsvRows(fieldnames, data) ==
    IF data = <<>> \/ WrongFields(fieldnames, Head(data)) # {} THEN <<>>
    ELSE <<CsvRow(fieldnames, Head(data))>> \o CsvRows(fieldnames, Tail(data))

\* Mutant: writer.writeheader() is left out.
write_csv_noheader(data, file) ==
    IF data = <<>> THEN file
    ELSE File(CsvRows(Keys(data[1]), data))

\* write_csv(data, output_path): the file at output_path afterwards, given
\* the file there before.
write_csv(data, file) ==
    IF data = <<>> THEN file
    ELSE LET fieldnames == Keys(data[1])
         IN  File(<<CsvHeader(fieldnames)>> \o CsvRows(fieldnames, data))

\* write_csv raises when a row has a key that is not a field name.
write_csv_raises(data) ==
    /\ data # <<>>
    /\ \E k \in 1..Len(data) : WrongFields(Keys(data[1]), data[k]) # {}

ValueError ==
    [type |-> "ValueError", msg |-> "dict contains fields not in fieldnames",
     path |-> <<>>, cause |-> 0]

-----------------------------------------------------------------------------
(* The run: main() *)

Unbound == [bound |-> FALSE, value |-> <<>>]

Event(op, k) == [op |-> op, doc |-> k]

\* What a run finds when it starts: the root directory missing, or present
\* with some files under it; pypdf importable or not.
Environments ==
    { [root_exists |-> FALSE, tree |-> {}, PdfReader |-> r] : r \in BOOLEAN }
        \cup { [root_exists |-> TRUE, tree |-> t, PdfReader |-> r] :
                   t \in SUBSET Entries, r \in BOOLEAN }

\* The script is started: module-level import (lines 25-28), then main().
Start(env) ==
    /\ root_exists' = env.root_exists
    /\ tree' = env.tree
    /\ PdfReader' = env.PdfReader
    /\ pc' = "start"
    /\ pdf_paths' = <<>>
    /\ idx' = 0
    /\ doc' = NoDocument
    /\ text' = Unbound
    /\ summaries' = <<>>
    /\ error' = NoError
    /\ trace' = <<>>

Init ==
    /\ \E env \in Environments :
          /\ root_exists = env.root_exists
          /\ tree = env.tree
          /\ PdfReader = env.PdfReader
    /\ fs_json = Absent
    /\ fs_csv = Absent
    /\ pc = "start"
    /\ pdf_paths = <<>>
    /\ idx = 0
    /\ doc = NoDocument
    /\ text = Unbound
    /\ summaries = <<>>
    /\ error = NoError
    /\ trace = <<>>
    /\ json_before = Absent
    /\ csv_before = Absent
    /\ run = 1

\* Mutant: the root_dir.exists() check is left out; rglob over a missing
\* directory yields nothing.
FindPdfFiles_nocheck ==
    /\ pc = "start"
    /\ \E e \in Enumerations(IF root_exists THEN rglob(tree) ELSE {}) :
          pdf_paths' = sorted(e)
    /\ idx' = 1
    /\ pc' = IF pdf_paths' = <<>> THEN "write_json" ELSE "extract"
    /\ error' = NoError
    /\ UNCHANGED <<root_exists, tree, PdfReader, fs_json, fs_csv, doc, text,
                   summaries, trace, json_before, csv_before, run>>

\* main, lines 159-163: pdf_paths = list(find_pdf_files(root_dir)), then
\* summarize_pdfs starts with summaries = [] and enters its loop.
FindPdfFiles ==
    /\ pc = "start"
    /\ IF ~root_exists
       THEN /\ pc' = "failed"
            /\ error' = FileNotFoundError(root_dir)
            /\ UNCHANGED <<pdf_paths, idx>>
       ELSE /\ \E e \in Enumerations(rglob(tree)) : pdf_paths' = sorted(e)
            /\ idx' = 1
            /\ pc' = IF pdf_paths' = <<>> THEN "write_json" ELSE "extract"
            /\ error' = NoError
    /\ UNCHANGED <<root_exists, tree, PdfReader, fs_json, fs_csv, doc, text,
                   summaries, trace, json_before, csv_before, run>>

\* Mutant: a failed extraction is skipped and the loop goes on with the next
\* document.
ExtractText_skip ==
    /\ pc = "extract"
    /\ \E d \in Documents :
          LET r == extract_text_from_pdf(pdf_paths[idx], d, PdfReader)
          IN  /\ doc' = IF r.opened THEN d ELSE NoDocument
              /\ IF r.raised
                 THEN /\ pc' = IF idx < Len(pdf_paths) THEN "extract" ELSE "write_json"
                      /\ idx' = idx + 1
                      /\ text' = text
                      /\ trace' = Append(trace, Event("extract_failed", idx))
                 ELSE /\ pc' = "summarize"
                      /\ idx' = idx
                      /\ text' = [bound |-> TRUE, value |-> r.value]
                      /\ trace' = Append(trace, Event("extract", idx))
    /\ UNCHANGED <<root_exists, tree, PdfReader, fs_json, fs_csv, pdf_paths, error,
                   summaries, json_before, csv_before, run>>

\* summarize_pdfs, line 130: text = extract_text_from_pdf(pdf_path); an
\* exception leaves summarize_pdfs and main.
ExtractText ==
    /\ pc = "extract"
    /\ \E d \in Documents :
          LET r == extract_text_from_pdf(pdf_paths[idx], d, PdfReader)
          IN  /\ doc' = IF r.opened THEN d ELSE NoDocument
              /\ IF r.raised
                 THEN /\ pc' = "failed"
                      /\ error' = r.exc
                      /\ text' = text
                      /\ trace' = Append(trace, Event("extract_failed", idx))
                 ELSE /\ pc' = "summarize"
                      /\ error' = error
                      /\ text' = [bound |-> TRUE, value |-> r.value]
                      /\ trace' = Append(trace, Event("extract", idx))
    /\ UNCHANGED <<root_exists, tree, PdfReader, fs_json, fs_csv, pdf_paths, idx,
                   summaries, json_before, csv_before, run>>

\* Mutant: the records collected so far are written after every document.
SummarizePaper_checkpoint ==
    /\ pc = "summarize"
    /\ summaries' =
          Append(summaries, summarize_paper(text.value, Name(pdf_paths[idx])))
    /\ fs_json' = write_json(summaries', fs_json)
    /\ trace' = Append(trace, Event("summarize", idx))
    /\ idx' = idx + 1
    /\ pc' = IF idx < Len(pdf_paths) THEN "extract" ELSE "write_json"
    /\ doc' = NoDocument
    /\ text' = Unbound
    /\ UNCHANGED <<root_exists, tree, PdfReader, fs_csv, pdf_paths, error,
                   json_before, csv_before, run>>

\* summarize_pdfs, lines 131-132, and the loop's next iteration or its end.
\* The iteration's text and reader are dead from here on (the next iteration
\* rebinds text before any read), so the model drops them.
SummarizePaper ==
    /\ pc = "summarize"
    /\ summaries' =
          Append(summaries, summarize_paper(text.value, Name(pdf_paths[idx])))
    /\ trace' = Append(trace, Event("summarize", idx))
    /\ idx' = idx + 1
    /\ pc' = IF idx < Len(pdf_paths) THEN "extract" ELSE "write_json"
    /\ doc' = NoDocument
    /\ text' = Unbound
    /\ UNCHANGED <<root_exists, tree, PdfReader, fs_json, fs_csv, pdf_paths, error,
                   json_before, csv_before, run>>

\* main, line 165
WriteJson ==
    /\ pc = "write_json"
    /\ fs_json' = write_json(summaries, fs_json)
    /\ pc' = "write_csv"
    /\ UNCHANGED <<root_exists, tree, PdfReader, fs_csv, pdf_paths, idx, doc, text,
                   summaries, error, trace, json_before, csv_before, run>>

\* main, line 166
WriteCsv ==
    /\ pc = "write_csv"
    /\ fs_csv' = write_csv(summaries, fs_csv)
    /\ IF write_csv_raises(summaries)
       THEN pc' = "failed" /\ error' = ValueError
       ELSE pc' = "done" /\ error' = error
    /\ UNCHANGED <<root_exists, tree, PdfReader, fs_json, pdf_paths, idx, doc, text,
                   summaries, trace, json_before, csv_before, run>>

\* The script is run again, over whatever the directory holds by then; the
\* output files are those the earlier runs left.
Invoke ==
    /\ pc \in {"done", "failed"}
    /\ run < MaxRuns
    /\ run' = run + 1
    /\ \E env \in Environments : Start(env)
    /\ json_before' = fs_json
    /\ csv_before' = fs_csv
    /\ UNCHANGED <<fs_json, fs_csv>>

Next ==
    \/ FindPdfFiles
    \/ ExtractText
    \/ SummarizePaper
    \/ WriteJson
    \/ WriteCsv
    \/ Invoke

Spec == Init /\ [][Next]_vars

-----------------------------------------------------------------------------
(* Properties *)

Last(s) == s[Len(s)]

\* An extraction has failed in this run.
ExtractionFailed == \E i \in 1..Len(trace) : trace[i].op = "extract_failed"

\* Document k has been extracted and summarized in this run.
Processed(k) ==
    /\ Event("extract", k) \in { trace[i] : i \in 1..Len(trace) }
    /\ Event("summarize", k) \in { trace[i] : i \in 1..Len(trace) }

OutputsUntouched == fs_json = json_before /\ fs_csv = csv_before

\* C1: if the extraction of a document fails, both output files hold what
\* they held when the run started, in every state of the run; an output file
\* differs from what it held only once every document of the batch has been
\* extracted and summarized.
C1_NoPartialOutput ==
    /\ ExtractionFailed => OutputsUntouched
    /\ ~OutputsUntouched =>
          /\ pc \in {"write_csv", "done"}
          /\ \A k \in 1..Len(pdf_paths) : Processed(k)

\* The third of three documents fails, two records are in hand, and the
\* output files an earlier run left are as they were.
C1_Witness ==
    /\ pc = "failed"
    /\ Len(trace) = 5
    /\ Last(trace) = Event("extract_failed", 3)
    /\ Len(summaries) = 2
    /\ fs_json.exists /\ fs_csv.exists
    /\ OutputsUntouched

\* C2: the calls of a run are extract 1, summarize 1, extract 2, summarize 2,
\* ... in Locator order; a failed extraction is the last call of the run, the
\* run has then ended with that error, and no step of the run is left to take.
C2_FailFastOrder ==
    /\ \A i \in 1..Len(trace) :
          /\ trace[i].doc = (i + 1) \div 2
          /\ trace[i].doc \in 1..Len(pdf_paths)
          /\ trace[i].op = (IF i % 2 = 0 THEN "summarize"
                            ELSE IF i = Len(trace) /\ pc = "failed"
                                 THEN "extract_failed" ELSE "extract")
    /\ ExtractionFailed => pc = "failed" /\ error # NoError
    /\ pc = "failed" =>
          ~ENABLED (FindPdfFiles \/ ExtractText \/ SummarizePaper \/ WriteJson \/ WriteCsv)

\* The second of three documents fails: the third is never extracted.
C2_Witness ==
    /\ pc = "failed"
    /\ Len(pdf_paths) = 3
    /\ trace = <<Event("extract", 1), Event("summarize", 1), Event("extract_failed", 2)>>

\* C3: when the loop has completed, summaries has one record per located
\* document, the k-th made from the k-th document, its "id" the document's
\* base filename; the nested file written from it has that many objects.
C3_OneRecordPerDocument ==
    pc \in {"write_json", "write_csv", "done"} =>
        /\ Len(summaries) = Len(pdf_paths)
        /\ \A k \in 1..Len(pdf_paths) :
              /\ Processed(k)
              /\ Get(summaries[k], "id", <<>>) = Last(pdf_paths[k])
              /\ Get(summaries[k], "id", <<>>) # <<>>

\* Three documents, two of them with the same base filename.
C3_Witness ==
    /\ pc = "done"
    /\ Len(summaries) = 3
    /\ \E j, k \in 1..3 : j # k /\ Last(pdf_paths[j]) = Last(pdf_paths[k])

\* C4: after a successful run over a directory with no documents, the nested
\* file is the empty array and the tabular file is absent or empty.
C4_EmptyBatch ==
    (pc = "done" /\ pdf_paths = <<>>) =>
        /\ fs_json = File(<< <<"[]">> >>)
        /\ ~fs_csv.exists \/ fs_csv.lines = <<>>

\* C5: with the root directory missing, the run ends with the Locator's
\* not-found error, no document is extracted, opened or summarized, and both
\* output files hold what they held before.
C5_MissingRoot ==
    (~root_exists /\ pc # "start") =>
        /\ pc = "failed"
        /\ error = FileNotFoundError(root_dir)
        /\ trace = <<>>
        /\ doc = NoDocument
        /\ summaries = <<>>
        /\ OutputsUntouched

\* The root is missing and the files an earlier run wrote are still there.
C5_Witness ==
    /\ ~root_exists
    /\ pc = "failed"
    /\ fs_json.exists /\ fs_csv.exists

\* C6: with the parsing capability missing, a run over an existing directory
\* ends with the dependency error, with no document opened and no output
\* written.
C6_DependencyFailsFast ==
    (~PdfReader /\ root_exists) =>
        /\ doc = NoDocument
        /\ OutputsUntouched
        /\ pc \in {"done", "failed"} => pc = "failed" /\ error = DependencyError

\* The names ending in the four letters ".pdf".
EndsWithPdf(name) ==
    /\ Len(name) >= 4
    /\ name[Len(name) - 3] = "."
    /\ name[Len(name) - 2] = "p"
    /\ name[Len(name) - 1] = "d"
    /\ name[Len(name)] = "f"

\* The Locator has returned each matching entry under the root exactly once,
\* and nothing else; no match is no error.
LocatedExactly ==
    /\ pc # "failed" \/ error # FileNotFoundError(root_dir)
    /\ { pdf_paths[i] : i \in 1..Len(pdf_paths) }
          = { q \in { root_dir \o SubSeq(x[1], 1, x[2]) :
                         x \in { y \in tree \X (1..2) : y[2] <= Len(y[1]) } } :
                  EndsWithPdf(Last(q)) }
    /\ \A i, j \in 1..Len(pdf_paths) : i # j => pdf_paths[i] # pdf_paths[j]

\* C7 as stated: the Locator's result is ordered by comparison of the whole
\* path strings, separators included.
C7_SortedByPathString ==
    (root_exists /\ pc # "start") =>
        /\ LocatedExactly
        /\ \A i, j \in 1..Len(pdf_paths) :
              i < j => StrLess(PathStr(pdf_paths[i]), PathStr(pdf_paths[j]))

\* Comparison of two paths part by part: the first differing directory or
\* file name decides.
PartwiseLess(p, q) ==
    \E n \in 1..Len(q) :
        /\ \A m \in 1..(n - 1) : m <= Len(p) /\ p[m] = q[m]
        /\ \/ Len(p) = n - 1
           \/ Len(p) >= n /\ p[n] # q[n] /\ StrLess(p[n], q[n])

\* C7, amended: the Locator's result holds each matching entry once and is
\* ordered by comparison of the paths part by part; it is the same whatever
\* order the directory walk yields the entries in.
C7_SortedByParts ==
    (root_exists /\ pc # "start") =>
        /\ LocatedExactly
        /\ \A i, j \in 1..Len(pdf_paths) :
              i < j => PartwiseLess(pdf_paths[i], pdf_paths[j])

\* Three documents located beside an entry that does not match, among them
\* a.pdf and a/b.pdf, which the two orders place differently.
C7_Witness ==
    /\ pc = "extract"
    /\ Len(pdf_paths) = 3
    /\ Cardinality(tree) = 4

\* The twelve fields of a record, in order.
FieldOrder ==
    <<"id", "title", "year", "venue", "study_type", "environment", "interface_type",
      "task", "participants", "measures", "main_findings", "relevance_to_my_thesis">>

\* C8: after a successful run over at least one document, the tabular file
\* holds a header row, the field names of the first record in its order,
\* then one row per record in order, each with the record's values under
\* those columns; every record has the twelve fixed fields in the fixed
\* order, so that is the header.
C8_TabularLayout ==
    (pc = "done" /\ summaries # <<>>) =>
        /\ fs_csv.exists
        /\ Len(fs_csv.lines) = Len(summaries) + 1
        /\ fs_csv.lines[1] = [j \in 1..Len(summaries[1]) |-> <<summaries[1][j][1]>>]
        /\ fs_csv.lines[1] = [j \in 1..12 |-> <<FieldOrder[j]>>]
        /\ \A k \in 1..Len(summaries) :
              /\ Keys(summaries[k]) = FieldOrder
              /\ Len(fs_csv.lines[k + 1]) = 12
              /\ \A j \in 1..12 :
                    fs_csv.lines[k + 1][j] = CsvCell(summaries[k][j][2])
              /\ fs_csv.lines[k + 1][1] = Last(pdf_paths[k])

\* A batch of three records has been written over an earlier run's file.
C8_Witness ==
    /\ pc = "done"
    /\ Len(summaries) = 3
    /\ csv_before.exists

\* C9: once a writer has written, calling it again with the same records
\* leaves its file as it is; the nested file depends on the records alone,
\* whatever the path held before; write_json leaves the tabular file alone
\* and write_csv the nested file.
C9_WritersIdempotent ==
    /\ pc = "write_csv" =>
          /\ write_json(summaries, fs_json) = fs_json
          /\ fs_json = File(JsonDump(summaries))
          /\ fs_csv = csv_before
    /\ pc = "done" =>
          /\ write_csv(summaries, fs_csv) = fs_csv
          /\ write_json(summaries, fs_json) = fs_json
          /\ fs_json = File(JsonDump(summaries))
          /\ summaries = <<>> => fs_csv = csv_before

\* Both writers have replaced what an earlier run left with something else.
C9_Witness ==
    /\ pc = "done"
    /\ json_before.exists /\ fs_json # json_before
    /\ csv_before.exists /\ fs_csv # csv_before

\* The text of a document none of whose pages raises: the page texts, a page
\* without text counting as the empty string, with a newline between each
\* two.
JoinedPages(pages) ==
    Flatten([i \in 1..(2 * Len(pages) - 1) |->
                IF i % 2 = 0 THEN <<"\n">>
                ELSE IF pages[(i + 1) \div 2].kind = "text"
                     THEN pages[(i + 1) \div 2].text ELSE <<>>])

Raising(pages) == { n \in 1..Len(pages) : pages[n].kind = "raise" }

\* C10: the Extractor returns a text only for a document none of whose pages
\* raises, and then the page texts joined by newlines in page order; when a
\* page raises the extraction fails with an error naming the document and
\* carrying the first raising page's exception as its cause, no text is
\* returned and no record is made.
C10_AllOrNothing ==
    /\ pc = "summarize" =>
          /\ doc.opens
          /\ Raising(doc.pages) = {}
          /\ text = [bound |-> TRUE, value |-> JoinedPages(doc.pages)]
    /\ (pc = "failed" /\ doc # NoDocument /\ doc.opens) =>
          /\ Raising(doc.pages) # {}
          /\ error.type = "RuntimeError"
          /\ error.path = pdf_paths[idx]
          /\ error.cause \in Raising(doc.pages)
          /\ \A n \in Raising(doc.pages) : error.cause <= n
          /\ ~text.bound
          /\ Len(summaries) = idx - 1

\* The second page raises after the first gave text.
C10_Witness ==
    /\ pc = "failed"
    /\ doc.opens
    /\ Len(doc.pages) = 2
    /\ doc.pages[1] = [kind |-> "text", text |-> <<"x">>]
    /\ error.cause = 2

\* A two-page document whose second page has no text is joined.
C10_WitnessJoin ==
    /\ pc = "summarize"
    /\ Len(doc.pages) = 2
    /\ doc.pages[2].kind = "none"
    /\ text.value = <<"x", "\n">>

====
